---- MODULE Spec2Model ----
(***************************************************************************)
(* Model of create_icons.py, the placeholder icon generator of the Rubi    *)
(* browser extension.  The script is a straight-line program: an import    *)
(* guard, os.makedirs, a loop over SIZES that renders and saves one PNG    *)
(* per size, and two final prints.  The model follows the script statement *)
(* by statement; the filesystem, the console and the outcome of the        *)
(* library calls that depend on the machine (font loading, glyph metrics,  *)
(* directory creation, file writing) are the environment.                  *)
(***************************************************************************)
EXTENDS Integers, Sequences, FiniteSets, TLC

(* ------------------------------ bounds -------------------------------- *)

\* number of times the script is invoked one after the other
MaxRuns == 2
\* largest bearing (left, either way, and top) of the measured glyph box
MaxBearing == 1
\* largest measured glyph width / height
MaxGlyph == 2

(* ----------------------- configuration constants ---------------------- *)

SIZES == <<16, 48, 128>>
OUTPUT_DIR == "assets/icons"
BG_COLOR == <<102, 126, 234>>
TEXT_COLOR == <<255, 255, 255>>

\* the module globals assigned at lines 16-21
Config ==
    [SIZES |-> SIZES, OUTPUT_DIR |-> OUTPUT_DIR,
     BG_COLOR |-> BG_COLOR, TEXT_COLOR |-> TEXT_COLOR]

(* ------------------------------ console ------------------------------- *)

InstallLine == "Pillow not installed. Run: pip install Pillow"
SuccessLine == "\nIcons created successfully!"
UsageLine == "You can now load the extension in Chrome."

\* f"{OUTPUT_DIR}/icon{size}.png"
output_path(dir, size) == dir \o "/icon" \o ToString(size) \o ".png"

\* f"Created {output_path}"
CreatedLine(path) == "Created " \o path

(* ----------------------------- filesystem ----------------------------- *)

\* sizes whose icon file an earlier version of the script may have left
StaleSizes == {32}

IconSizes == {SIZES[k] : k \in 1..Len(SIZES)}

IconPaths == {output_path(OUTPUT_DIR, s) : s \in IconSizes}
StalePaths == {output_path(OUTPUT_DIR, s) : s \in StaleSizes}
Paths == {"assets", OUTPUT_DIR} \cup IconPaths \cup StalePaths

\* os.path.split(name)[0] on the paths of the model
dirname(name) ==
    IF name = "assets" THEN ""
    ELSE IF name = OUTPUT_DIR THEN "assets"
    ELSE OUTPUT_DIR

Absent == [kind |-> "absent", w |-> 0, h |-> 0, bg |-> <<>>, gen |-> 0]
Dir == [kind |-> "dir", w |-> 0, h |-> 0, bg |-> <<>>, gen |-> 0]
\* a file whose bytes are not a complete image written by the script
Blob(g) == [kind |-> "file", w |-> 0, h |-> 0, bg |-> <<>>, gen |-> g]

\* the filesystems the script can be started on: an entry lies below a
\* directory, and what is at an icon path is a file
WellFormed(f) ==
    \A p \in Paths :
        (f[p].kind # "absent" /\ dirname(p) # "") => f[dirname(p)].kind = "dir"

InitialFS ==
    {f \in [Paths -> {Absent, Dir, Blob(0)}] :
        /\ WellFormed(f)
        /\ \A p \in IconPaths \cup StalePaths : f[p].kind # "dir"}

(* --------------------------- library calls ---------------------------- *)

\* a canvas as high as the font, not as the icon
Image_newFontHigh(size, color) ==
    [w |-> size, h |-> (size * 6) \div 10, bg |-> color, glyph |-> <<>>]

\* Image.new('RGB', (size, size), BG_COLOR)
Image_new(size, color) ==
    [w |-> size, h |-> size, bg |-> color, glyph |-> <<>>]

\* int(size * 0.6)
font_size(size) == (size * 6) \div 10

truetype(sz) == [kind |-> "truetype", size |-> sz]
load_default == [kind |-> "default", size |-> 0]
NoFont == [kind |-> "none", size |-> 0]

\* the boxes draw.textbbox((0, 0), "R", font) can measure: the glyph's box
\* relative to the origin, left of it when the left bearing is negative
BBoxes ==
    {<<l, t, l + w, t + h>> :
        l \in -MaxBearing..MaxBearing, t \in 0..MaxBearing,
        w \in 1..MaxGlyph, h \in 1..MaxGlyph}

\* lines 45-48
text_width(bb) == bb[3] - bb[1]
text_height(bb) == bb[4] - bb[2]
Position(size, bb) ==
    <<(size - text_width(bb)) \div 2, (size - text_height(bb)) \div 2 - bb[2]>>

\* draw.text(position, text): the glyph covers its measured box moved to
\* the draw position
draw_text(im, pos, bb) ==
    [im EXCEPT !.glyph = <<pos[1] + bb[1], pos[2] + bb[2],
                           pos[1] + bb[3], pos[2] + bb[4]>>]

\* the PNG img.save leaves on disk
Png(im, g) ==
    [kind |-> "file", w |-> im.w, h |-> im.h, bg |-> im.bg, gen |-> g]

\* os.mkdir(name)
mkdir(f, name, denied) ==
    IF /\ f[name].kind = "absent"
       /\ dirname(name) = "" \/ f[dirname(name)].kind = "dir"
       /\ ~denied
    THEN [ok |-> TRUE, fs |-> [f EXCEPT ![name] = Dir]]
    ELSE [ok |-> FALSE, fs |-> f]

\* makedirs with exist_ok left at its default: an existing directory is an
\* error
RECURSIVE makedirsStrict(_, _, _, _)
makedirsStrict(f, name, exist_ok, denied) ==
    LET head == dirname(name)
        r == IF head # "" /\ f[head].kind = "absent"
             THEN makedirsStrict(f, head, exist_ok, denied)
             ELSE [ok |-> TRUE, fs |-> f]
        m == mkdir(r.fs, name, denied)
    IN  IF ~r.ok THEN r
        ELSE IF m.ok THEN m
        ELSE [ok |-> FALSE, fs |-> r.fs]

\* a single mkdir of the leaf whose error is passed over
makedirsLeafOnly(f, name, exist_ok, denied) ==
    [ok |-> TRUE, fs |-> mkdir(f, name, denied).fs]

\* the output directory emptied before it is made
RECURSIVE makedirsFresh(_, _, _, _)
makedirsFresh(f, name, exist_ok, denied) ==
    LET g == [p \in Paths |-> IF dirname(p) = name THEN Absent ELSE f[p]]
        head == dirname(name)
        r == IF head # "" /\ g[head].kind = "absent"
             THEN makedirsFresh(g, head, exist_ok, denied)
             ELSE [ok |-> TRUE, fs |-> g]
        m == mkdir(r.fs, name, denied)
    IN  IF ~r.ok THEN r
        ELSE IF m.ok THEN m
        ELSE IF exist_ok /\ r.fs[name].kind = "dir" THEN [ok |-> TRUE, fs |-> r.fs]
        ELSE [ok |-> FALSE, fs |-> r.fs]

\* os.makedirs(name, exist_ok)
RECURSIVE makedirs(_, _, _, _)
makedirs(f, name, exist_ok, denied) ==
    LET head == dirname(name)
        r == IF head # "" /\ f[head].kind = "absent"
             THEN makedirs(f, head, exist_ok, denied)
             ELSE [ok |-> TRUE, fs |-> f]
        m == mkdir(r.fs, name, denied)
    IN  IF ~r.ok THEN r
        ELSE IF m.ok THEN m
        ELSE IF exist_ok /\ r.fs[name].kind = "dir" THEN [ok |-> TRUE, fs |-> r.fs]
        ELSE [ok |-> FALSE, fs |-> r.fs]

(* ------------------------------- state -------------------------------- *)

VARIABLES
    pil,        \* whether "from PIL import ..." succeeds on this machine
    config,     \* the module globals SIZES, OUTPUT_DIR, BG_COLOR, TEXT_COLOR
    fs,         \* the filesystem: path -> entry
    console,    \* the lines printed by this run
    pc,         \* the statement the script is at
    idx,        \* position of the for loop in SIZES
    img,        \* the canvas of the current iteration
    font,       \* the font of the current iteration
    bbox,       \* the measured glyph box
    position,   \* the computed draw position
    exitStatus, \* exit status of the process once pc = "done"
    run,        \* which invocation of the script this is
    fs0,        \* history: the filesystem when this run started
    ioError,    \* history: a directory or file operation of this run failed
    fontFailed, \* history: sizes whose preferred font failed to load
    attempts,   \* history: sizes img.save was called for, in order
    writes      \* history: sizes img.save wrote completely, in order

vars == <<pil, config, fs, console, pc, idx, img, font, bbox, position,
          exitStatus, run, fs0, ioError, fontFailed, attempts, writes>>

env == <<pil, run, fs0>>
locals == <<img, font, bbox, position>>
hist == <<ioError, fontFailed, attempts, writes>>

NoImage == [w |-> 0, h |-> 0, bg |-> <<>>, glyph |-> <<>>]
NoBox == <<0, 0, 0, 0>>
NoPos == <<0, 0>>
\* exitStatus while the process has not exited
Running == -1

size == config.SIZES[idx]

Init ==
    /\ pil \in BOOLEAN
    /\ config = Config
    /\ fs \in InitialFS
    /\ fs0 = fs
    /\ console = <<>>
    /\ pc = "import"
    /\ idx = 0
    /\ img = NoImage
    /\ font = NoFont
    /\ bbox = NoBox
    /\ position = NoPos
    /\ exitStatus = Running
    /\ run = 1
    /\ ioError = FALSE
    /\ fontFailed = {}
    /\ attempts = <<>>
    /\ writes = <<>>

(* ------------------------------ actions ------------------------------- *)

\* an exception nothing catches: traceback, exit status 1
Raise ==
    /\ pc' = "done"
    /\ exitStatus' = 1

\* the guard without its exit(1): the script runs on after the message
ImportGuardNoExit ==
    /\ pc = "import"
    /\ IF pil
       THEN UNCHANGED console
       ELSE console' = Append(console, InstallLine)
    /\ pc' = "makedirs"
    /\ UNCHANGED <<config, fs, idx, exitStatus, env, locals, hist>>

\* the guard leaving with exit(0)
ImportGuardExitZero ==
    /\ pc = "import"
    /\ IF pil
       THEN /\ pc' = "makedirs"
            /\ UNCHANGED <<console, exitStatus>>
       ELSE /\ console' = Append(console, InstallLine)
            /\ pc' = "done"
            /\ exitStatus' = 0
    /\ UNCHANGED <<config, fs, idx, env, locals, hist>>

\* lines 7-11
ImportGuard ==
    /\ pc = "import"
    /\ IF pil
       THEN /\ pc' = "makedirs"
            /\ UNCHANGED <<console, exitStatus>>
       ELSE /\ console' = Append(console, InstallLine)
            /\ pc' = "done"
            /\ exitStatus' = 1
    /\ UNCHANGED <<config, fs, idx, env, locals, hist>>

\* line 24
EnsureOutputDir ==
    /\ pc = "makedirs"
    /\ \E denied \in BOOLEAN :
        LET r == makedirs(fs, config.OUTPUT_DIR, TRUE, denied)
        IN  /\ fs' = r.fs
            /\ ioError' = ~r.ok
            /\ IF r.ok
               THEN pc' = "for" /\ UNCHANGED exitStatus
               ELSE Raise
    /\ UNCHANGED <<config, console, idx, env, locals, fontFailed, attempts, writes>>

\* line 26
ForNext ==
    /\ pc = "for"
    /\ \/ /\ idx < Len(config.SIZES)
          /\ idx' = idx + 1
          /\ pc' = "new"
       \/ /\ idx >= Len(config.SIZES)
          /\ pc' = "final"
          /\ UNCHANGED idx
    /\ UNCHANGED <<config, fs, console, exitStatus, env, locals, hist>>

\* lines 28-29
NewImage ==
    /\ pc = "new"
    /\ img' = Image_new(size, config.BG_COLOR)
    /\ pc' = "font"
    /\ UNCHANGED <<config, fs, console, idx, exitStatus, env,
                   font, bbox, position, hist>>

\* the font load without the except clause: a failure ends the run
LoadFontNoFallback ==
    /\ pc = "font"
    /\ \/ /\ font' = truetype(font_size(size))
          /\ pc' = "bbox"
          /\ UNCHANGED <<fontFailed, exitStatus>>
       \/ /\ fontFailed' = fontFailed \cup {size}
          /\ Raise
          /\ UNCHANGED font
    /\ UNCHANGED <<config, fs, console, idx, env,
                   img, bbox, position, ioError, attempts, writes>>

\* lines 32-38
LoadFont ==
    /\ pc = "font"
    /\ \/ /\ font' = truetype(font_size(size))
          /\ UNCHANGED fontFailed
       \/ /\ font' = load_default
          /\ fontFailed' = fontFailed \cup {size}
    /\ pc' = "bbox"
    /\ UNCHANGED <<config, fs, console, idx, exitStatus, env,
                   img, bbox, position, ioError, attempts, writes>>

\* lines 44-48
MeasureText ==
    /\ pc = "bbox"
    /\ \E bb \in BBoxes :
        /\ bbox' = bb
        /\ position' = Position(size, bb)
    /\ pc' = "draw"
    /\ UNCHANGED <<config, fs, console, idx, exitStatus, env,
                   img, font, hist>>

\* line 49
DrawText ==
    /\ pc = "draw"
    /\ img' = draw_text(img, position, bbox)
    /\ pc' = "save"
    /\ UNCHANGED <<config, fs, console, idx, exitStatus, env,
                   font, bbox, position, hist>>

\* a save whose failure is passed over: the loop goes on to the next size
SaveIconKeepGoing ==
    /\ pc = "save"
    /\ LET path == output_path(config.OUTPUT_DIR, size)
       IN  /\ attempts' = Append(attempts, size)
           /\ \/ /\ fs[path].kind # "dir"
                 /\ fs' = [fs EXCEPT ![path] = Png(img, run)]
                 /\ writes' = Append(writes, size)
                 /\ pc' = "print"
                 /\ UNCHANGED ioError
              \/ /\ UNCHANGED <<fs, writes>>
                 /\ ioError' = TRUE
                 /\ pc' = "for"
    /\ UNCHANGED <<config, console, idx, exitStatus, env, locals, fontFailed>>

\* lines 52-53
SaveIcon ==
    /\ pc = "save"
    /\ LET path == output_path(config.OUTPUT_DIR, size)
       IN  /\ attempts' = Append(attempts, size)
           /\ \/ \* the file is opened and the PNG written
                 /\ fs[path].kind # "dir"
                 /\ fs' = [fs EXCEPT ![path] = Png(img, run)]
                 /\ writes' = Append(writes, size)
                 /\ pc' = "print"
                 /\ UNCHANGED <<exitStatus, ioError>>
              \/ \* open() fails: a directory at the path, or no permission
                 /\ UNCHANGED <<fs, writes>>
                 /\ ioError' = TRUE
                 /\ Raise
              \/ \* the write fails after open() truncated or created the file
                 /\ fs[path].kind # "dir"
                 /\ fs' = [fs EXCEPT ![path] = Blob(run)]
                 /\ UNCHANGED writes
                 /\ ioError' = TRUE
                 /\ Raise
    /\ UNCHANGED <<config, console, idx, env, locals, fontFailed>>

\* the iteration without its print
PrintCreatedSilent ==
    /\ pc = "print"
    /\ pc' = "for"
    /\ img' = NoImage
    /\ font' = NoFont
    /\ bbox' = NoBox
    /\ position' = NoPos
    /\ UNCHANGED <<config, fs, console, idx, exitStatus, env, hist>>

\* line 54, the end of the loop body: the canvas, the font and the
\* measurements of this iteration are not read again (each is rebound before
\* its next use), so the model drops them here
PrintCreated ==
    /\ pc = "print"
    /\ console' = Append(console, CreatedLine(output_path(config.OUTPUT_DIR, size)))
    /\ pc' = "for"
    /\ img' = NoImage
    /\ font' = NoFont
    /\ bbox' = NoBox
    /\ position' = NoPos
    /\ UNCHANGED <<config, fs, idx, exitStatus, env, hist>>

\* lines 56-57, then the normal end of the script
Finish ==
    /\ pc = "final"
    /\ console' = console \o <<SuccessLine, UsageLine>>
    /\ pc' = "done"
    /\ exitStatus' = 0
    /\ UNCHANGED <<config, fs, idx, env, locals, hist>>

\* the script is invoked again, as a new process, on the filesystem a
\* completed run left
Rerun ==
    /\ pc = "done"
    /\ exitStatus = 0
    /\ run < MaxRuns
    /\ run' = run + 1
    /\ fs0' = fs
    /\ config' = Config
    /\ console' = <<>>
    /\ pc' = "import"
    /\ idx' = 0
    /\ img' = NoImage
    /\ font' = NoFont
    /\ bbox' = NoBox
    /\ position' = NoPos
    /\ exitStatus' = Running
    /\ ioError' = FALSE
    /\ fontFailed' = {}
    /\ attempts' = <<>>
    /\ writes' = <<>>
    /\ UNCHANGED <<pil, fs>>

Step ==
    \/ ImportGuard
    \/ EnsureOutputDir
    \/ ForNext
    \/ NewImage
    \/ LoadFont
    \/ MeasureText
    \/ DrawText
    \/ SaveIcon
    \/ PrintCreated
    \/ Finish

Next == Step \/ Rerun

Spec == Init /\ [][Next]_vars

\* the interpreter runs every statement of a started script
FairSpec == Spec /\ WF_vars(Step)

(* --------------------------- shared notions --------------------------- *)

\* the run ended normally
Succeeded == pc = "done" /\ exitStatus = 0

IconPathOf(k) == output_path(OUTPUT_DIR, SIZES[k])

\* the entry at path p is an image of s by s pixels
IsIcon(f, p, s) == f[p].kind = "file" /\ f[p].w = s /\ f[p].h = s

\* the first n "Created" lines of a run
CreatedLines(n) == [k \in 1..n |-> CreatedLine(IconPathOf(k))]

Present(f) == {p \in Paths : f[p].kind # "absent"}

TypeOK ==
    /\ pil \in BOOLEAN
    /\ pc \in {"import", "makedirs", "for", "new", "font", "bbox", "draw",
               "save", "print", "final", "done"}
    /\ idx \in 0..Len(SIZES)
    /\ exitStatus \in {Running, 0, 1}
    /\ run \in 1..MaxRuns

(* ------------------------------- claims -------------------------------- *)

\* C1: after a successful run every configured size S has its file
\* <OUTPUT_DIR>/icon<S>.png, and the image in it is exactly S by S, whatever
\* was on disk before and whichever font each size was drawn with.
EveryIconExactSize ==
    Succeeded =>
        \A k \in 1..Len(SIZES) : IsIcon(fs, IconPathOf(k), SIZES[k])

\* a successful first run over an old file and an empty slot, one size drawn
\* with the fallback font and the others with the preferred font
EveryIconExactSizeWitness ==
    /\ Succeeded
    /\ run = 1
    /\ fs0[IconPathOf(1)] = Blob(0)
    /\ fs0[IconPathOf(2)] = Absent
    /\ fontFailed = {SIZES[2]}

\* C2: without the image capability the script prints the install
\* instruction and exits non-zero before any directory or file operation:
\* the filesystem stays the initial one and no "Created" or success line is
\* printed.
NoCapabilityNoEffect ==
    ~pil =>
        /\ pc \in {"import", "done"}
        /\ fs = fs0
        /\ run = 1
        /\ console = IF pc = "done" THEN <<InstallLine>> ELSE <<>>
        /\ pc = "done" => exitStatus = 1

\* the script has exited without the capability where the output directory
\* did not exist
NoCapabilityNoEffectWitness ==
    /\ ~pil
    /\ pc = "done"
    /\ exitStatus = 1
    /\ fs0["assets"] = Absent

\* C3: whatever sizes the preferred font fails to load for, the failing
\* iteration goes on with the default font, and a run in which no directory
\* or file operation fails ends normally with every icon written at its size
\* and with nothing on the console but the "Created" lines and the success
\* message.
FontFallbackCompletes ==
    /\ pc \in {"bbox", "draw", "save", "print"} =>
           font = IF size \in fontFailed THEN load_default
                  ELSE truetype(font_size(size))
    /\ (pc = "done" /\ pil /\ ~ioError) =>
           /\ exitStatus = 0
           /\ writes = SIZES
           /\ \A k \in 1..Len(SIZES) :
                  /\ IsIcon(fs, IconPathOf(k), SIZES[k])
                  /\ fs[IconPathOf(k)].gen = run
           /\ console = CreatedLines(Len(SIZES)) \o <<SuccessLine, UsageLine>>

\* a run that ended normally although the preferred font failed for every
\* size
FontFallbackCompletesWitness ==
    /\ Succeeded
    /\ fontFailed = IconSizes
    /\ \A k \in 1..Len(SIZES) : fs[IconPathOf(k)].gen = run

\* C4: a run started on what a successful run left does not fail on the
\* directory or the files that are already there (only a failed write ends
\* it early), overwrites every icon<S>.png, and ends with the same set of
\* files as the run before it.
RerunOverwrites ==
    run > 1 =>
        /\ (pc = "done" /\ attempts = writes) => exitStatus = 0
        /\ pc = "save" =>
               fs[output_path(OUTPUT_DIR, size)].kind = "file"
        /\ Succeeded =>
               /\ Present(fs) = Present(fs0)
               /\ \A k \in 1..Len(SIZES) :
                      /\ IsIcon(fs0, IconPathOf(k), SIZES[k])
                      /\ fs0[IconPathOf(k)].gen = run - 1
                      /\ IsIcon(fs, IconPathOf(k), SIZES[k])
                      /\ fs[IconPathOf(k)].gen = run

\* a second run that ended normally
RerunOverwritesWitness ==
    /\ run = 2
    /\ Succeeded
    /\ writes = SIZES

\* C5: with the capability present, once os.makedirs has returned the output
\* directory and its parent exist, at every point up to and including the
\* file writes, whether or not they existed before; and when the directory
\* was already there the step does not fail and changes nothing on disk.
DirectoryPrepared ==
    /\ [](pc \in {"for", "new", "font", "bbox", "draw", "save", "print", "final"} =>
             /\ fs["assets"] = Dir
             /\ fs[OUTPUT_DIR] = Dir)
    /\ [][(pc = "makedirs" /\ fs[OUTPUT_DIR].kind = "dir") =>
             (pc' = "for" /\ fs' = fs /\ exitStatus' = Running)]_vars

\* the loop is about to start, nothing written yet, on a machine where
\* neither the output directory nor its parent existed
DirectoryPreparedWitness ==
    /\ pc = "for"
    /\ idx = 0
    /\ writes = <<>>
    /\ fs0["assets"] = Absent
    /\ fs[OUTPUT_DIR] = Dir

\* C6: the sizes are written in the configured order; the "Created" line of
\* a size is printed once, after its file is written and before the next
\* file is written; the success message is printed once, after the last
\* "Created" line, so a successful run shows one "Created" line per size and
\* then the two-line message.
WritesAndLinesInOrder ==
    pil =>
        /\ writes = SubSeq(SIZES, 1, Len(writes))
        /\ IF Succeeded
           THEN /\ writes = SIZES
                /\ console = CreatedLines(Len(SIZES)) \o <<SuccessLine, UsageLine>>
           ELSE \E n \in 0..Len(SIZES) :
                /\ console = CreatedLines(n)
                /\ \/ Len(writes) = n
                   \/ pc = "print" /\ Len(writes) = n + 1

\* a successful run: three files written, three lines and the message
WritesAndLinesInOrderWitness ==
    /\ Succeeded
    /\ Len(writes) = Len(SIZES)
    /\ Len(console) = Len(SIZES) + 2

\* C7 as stated: the exit status is 1 without the capability and 0 in every
\* other run, whatever else happens.
ExitZeroWheneverCapable ==
    pc = "done" => exitStatus = IF pil THEN 0 ELSE 1

\* C7 as amended: every run terminates; the exit status is 0 when the run
\* completes, and 1 both when the capability is absent and when a directory
\* or file operation fails with the exception nothing handles.
ExitStatusByOutcome ==
    /\ [](pc = "done" => exitStatus = IF pil /\ ~ioError THEN 0 ELSE 1)
    /\ (pc = "import") ~> (pc = "done")

\* a run with the capability that a failed write ended with status 1
ExitStatusByOutcomeWitness ==
    /\ pc = "done"
    /\ pil
    /\ ioError
    /\ attempts # writes
    /\ exitStatus = 1

\* C8: when the write for the k-th size fails the run ends there: each size
\* up to k was tried once, the files of the k-1 sizes before it are in
\* place, k-1 "Created" lines and no success message were printed, and no
\* file of a later size was touched.
FailedWriteStopsRun ==
    attempts # writes =>
        LET k == Len(attempts) IN
        /\ pc = "done"
        /\ exitStatus = 1
        /\ attempts = SubSeq(SIZES, 1, k)
        /\ writes = SubSeq(SIZES, 1, k - 1)
        /\ console = CreatedLines(k - 1)
        /\ \A j \in 1..(k - 1) :
               /\ IsIcon(fs, IconPathOf(j), SIZES[j])
               /\ fs[IconPathOf(j)].gen = run
        /\ \A j \in (k + 1)..Len(SIZES) : fs[IconPathOf(j)] = fs0[IconPathOf(j)]

\* the write of the second size failed after the first was written
FailedWriteStopsRunWitness ==
    /\ pc = "done"
    /\ Len(attempts) = 2
    /\ Len(writes) = 1
    /\ fs[IconPathOf(1)].gen = run

\* C9: the draw position is ((S - width) div 2, (S - height) div 2 - top),
\* and the glyph drawn there is centred in the S by S canvas up to rounding
\* on both axes: left and right margins differ by at most 1, and so do top
\* and bottom margins.
GlyphCentred ==
    pc = "save" =>
        LET left == img.glyph[1]
            top == img.glyph[2]
            right == img.w - img.glyph[3]
            bottom == img.h - img.glyph[4]
        IN  /\ position = <<(size - (bbox[3] - bbox[1])) \div 2,
                            (size - (bbox[4] - bbox[2])) \div 2 - bbox[2]>>
            /\ left - right \in -1..1
            /\ top - bottom \in -1..1

\* C10: a run changes the filesystem only by creating the output directory
\* and its missing parent and by creating or overwriting the icon files of
\* the configured sizes; nothing else changes, nothing is deleted (stale
\* icons of other sizes stay), and the configuration is never modified.
OnlyIconsAndDirTouched ==
    [][/\ \A p \in Paths :
            /\ fs'[p] # fs[p] =>
                   \/ p \in {"assets", OUTPUT_DIR} /\ fs[p] = Absent /\ fs'[p] = Dir
                   \/ p \in IconPaths /\ fs'[p].kind = "file"
            /\ fs[p].kind # "absent" => fs'[p].kind # "absent"
       /\ config' = config
       /\ config = Config]_vars

\* a completed run that created the directory and left a stale icon alone
OnlyIconsAndDirTouchedWitness ==
    /\ Succeeded
    /\ \A p \in StalePaths : fs[p] = Blob(0)
    /\ \A p \in IconPaths : fs[p].gen = run
====
